---------------------------- MODULE Spec2Model ----------------------------
(* Model of captcha_solver.js: a batch run over the PNG files of the image  *)
(* directory, one recognizer call per file, running totals, and one report  *)
(* written at the end of the run.                                           *)
(*                                                                          *)
(* File names and message contents are sequences of UTF-16 code units.      *)
(* Money and time are exact scaled integers: USD in units of 1e-5 dollar,   *)
(* TL in units of 1e-7 lira, response time in milliseconds; the binary      *)
(* floating-point rounding of the JavaScript numbers is not modelled.       *)
EXTENDS Integers, Sequences, FiniteSets, TLC

VARIABLES
    apiKey,            \* process.env.OPENAI_API_KEY is set
    imageDir,          \* state of the image directory on disk
    resultsDirExists,  \* the results directory exists on disk
    dirEntries,        \* what readdirSync(IMAGE_DIR) returns, in its order
    pc,                \* position of the program
    exitCode,          \* status passed to process.exit
    files,             \* main: const files
    idx,               \* main: position of the for-of loop in files
    results,           \* main: const results = []
    totalCostUSD,      \* main: let totalCostUSD
    totalCostTL,       \* main: let totalCostTL
    totalTime,         \* main: let totalTime
    totalTokens,       \* main: let totalTokens
    attempted,         \* files for which processImage was invoked, in order
    apiCalls,          \* files for which an outbound API call was issued
    inFlight,          \* outbound API calls issued and not yet settled
    outcomes,          \* what each settled processImage call produced
    delays,            \* arguments of the setTimeout calls made so far
    errorLog,          \* console.error lines of the per-item catch
    reportFile,        \* content of the report file on disk
    writes,            \* number of completed writeFileSync calls
    writeCalls,        \* number of writeFileSync calls made
    mkdirCalls,        \* number of mkdirSync(RESULTS_DIR) calls made
    costArgs,          \* arguments of a calculateCost call
    costResult         \* what that call returned, once it has

vars == <<apiKey, imageDir, resultsDirExists, dirEntries, pc, exitCode, files,
          idx, results, totalCostUSD, totalCostTL, totalTime, totalTokens,
          attempted, apiCalls, inFlight, outcomes, delays, errorLog,
          reportFile, writes, writeCalls, mkdirCalls, costArgs, costResult>>

costVars == <<costArgs, costResult>>
envVars == <<apiKey, imageDir, dirEntries>>
totalVars == <<totalCostUSD, totalCostTL, totalTime, totalTokens>>

---------------------------------------------------------------------------
(* Bounds and program constants *)

\* Largest number of entries in the image directory.
MaxEntries == 3

\* Largest token count handed to calculateCost on its own.
MaxTokens == 12

\* parseFloat(process.env.USD_TO_TL || '34.99'), in hundredths of a lira.
USD_TO_TL == 3499

\* parseInt(process.env.DELAY_BETWEEN_REQUESTS || '1000'), milliseconds.
DELAY_BETWEEN_REQUESTS == 1000

\* $0.01 per 1K input tokens: 1 unit of 1e-5 dollar per token.
INPUT_PRICE_PER_1K == 1

\* $0.03 per 1K output tokens: 3 units of 1e-5 dollar per token.
OUTPUT_PRICE_PER_1K == 3

\* Code units: a.png, b.PNG, C.png, d.Png, c.txt, n.md, apng.
NamePool ==
    { <<97, 46, 112, 110, 103>>,
      <<98, 46, 80, 78, 71>>,
      <<67, 46, 112, 110, 103>>,
      <<100, 46, 80, 110, 103>>,
      <<99, 46, 116, 120, 116>>,
      <<110, 46, 109, 100>>,
      <<97, 112, 110, 103>> }

\* '.png'
PngSuffix == <<46, 112, 110, 103>>

\* Responses of the completion service: message content, usage, and the
\* milliseconds between startTime and endTime.
ApiResponses ==
    { [content |-> <<32, 65, 66, 32>>, prompt_tokens |-> 85,
       completion_tokens |-> 3, total_tokens |-> 88, elapsed |-> 1234],
      [content |-> <<55>>, prompt_tokens |-> 255,
       completion_tokens |-> 10, total_tokens |-> 265, elapsed |-> 995],
      [content |-> <<>>, prompt_tokens |-> 0,
       completion_tokens |-> 0, total_tokens |-> 0, elapsed |-> 0] }

---------------------------------------------------------------------------
(* Pure helpers *)

\* String.prototype.toLowerCase on one code unit (ASCII range).
toLowerCaseUnit(c) == IF c >= 65 /\ c <= 90 THEN c + 32 ELSE c

toLowerCase(s) == [i \in 1..Len(s) |-> toLowerCaseUnit(s[i])]

endsWith(s, suffix) ==
    /\ Len(s) >= Len(suffix)
    /\ SubSeq(s, Len(s) - Len(suffix) + 1, Len(s)) = suffix

\* Variant: the extension is compared without lowering the case.
IsPng_CaseSensitive(file) == endsWith(file, PngSuffix)

\* file => file.toLowerCase().endsWith('.png')
IsPng(file) == endsWith(toLowerCase(file), PngSuffix)

\* Array.prototype.filter with the predicate above.
FilterPng(entries) == SelectSeq(entries, IsPng)

\* Default comparison of Array.prototype.sort: by UTF-16 code units, a
\* proper prefix first.
RECURSIVE StringLess(_, _)
StringLess(a, b) ==
    IF b = <<>> THEN FALSE
    ELSE IF a = <<>> THEN TRUE
    ELSE IF Head(a) # Head(b) THEN Head(a) < Head(b)
    ELSE StringLess(Tail(a), Tail(b))

RECURSIVE InsertSorted(_, _)
InsertSorted(x, s) ==
    IF s = <<>> THEN <<x>>
    ELSE IF StringLess(Head(s), x) THEN <<Head(s)>> \o InsertSorted(x, Tail(s))
    ELSE <<x>> \o s

\* Array.prototype.sort() without a comparator.
RECURSIVE SortNames(_)
SortNames(s) ==
    IF s = <<>> THEN <<>> ELSE InsertSorted(Head(s), SortNames(Tail(s)))

\* String.prototype.trim: drop leading and trailing spaces.
RECURSIVE TrimStart(_)
TrimStart(s) ==
    IF s # <<>> /\ Head(s) = 32 THEN TrimStart(Tail(s)) ELSE s

RECURSIVE TrimEnd(_)
TrimEnd(s) ==
    IF s # <<>> /\ s[Len(s)] = 32 THEN TrimEnd(SubSeq(s, 1, Len(s) - 1)) ELSE s

trim(s) == TrimEnd(TrimStart(s))

RECURSIVE Pow10(_)
Pow10(n) == IF n = 0 THEN 1 ELSE 10 * Pow10(n - 1)

\* Number.prototype.toFixed(digits) of the non-negative value num/den: the
\* nearest multiple of 10^-digits (half rounds up), as a count of them.
toFixed(num, den, digits) ==
    (2 * num * Pow10(digits) + den) \div (2 * den)

\* Variant: output tokens are priced at the input rate.
calculateCost_OneRate(inputTokens, outputTokens) ==
    LET inputCost == inputTokens * INPUT_PRICE_PER_1K
        outputCost == outputTokens * INPUT_PRICE_PER_1K
        totalUSD == inputCost + outputCost
        totalTL == totalUSD * USD_TO_TL
    IN  [usd |-> totalUSD, tl |-> totalTL]

\* calculateCost: usd in units of 1e-5 dollar, tl in units of 1e-7 lira.
calculateCost(inputTokens, outputTokens) ==
    LET inputCost == inputTokens * INPUT_PRICE_PER_1K
        outputCost == outputTokens * OUTPUT_PRICE_PER_1K
        totalUSD == inputCost + outputCost
        totalTL == totalUSD * USD_TO_TL
    IN  [usd |-> totalUSD, tl |-> totalTL]

\* The value processImage resolves to for one API response.
ProcessResult(response) ==
    [text |-> trim(response.content),
     stats |-> [responseTime |-> response.elapsed,
                inputTokens |-> response.prompt_tokens,
                outputTokens |-> response.completion_tokens,
                totalTokens |-> response.total_tokens,
                cost |-> calculateCost(response.prompt_tokens,
                                       response.completion_tokens)]]

\* The per-file block pushed to results.
FileEntry(file, result) ==
    [kind |-> "file",
     file |-> file,
     text |-> result.text,
     responseTime |-> toFixed(result.stats.responseTime, 1000, 2),
     totalTokens |-> result.stats.totalTokens,
     inputTokens |-> result.stats.inputTokens,
     outputTokens |-> result.stats.outputTokens,
     usd |-> toFixed(result.stats.cost.usd, 100000, 4),
     tl |-> toFixed(result.stats.cost.tl, 10000000, 2)]

\* The "Total Statistics" block pushed after the loop.
TotalEntry(time, tokens, usd, tl, nFiles) ==
    [kind |-> "total",
     totalTime |-> toFixed(time, 1000, 2),
     totalTokens |-> tokens,
     averageTokens |-> toFixed(tokens, nFiles, 0),
     usd |-> toFixed(usd, 100000, 4),
     tl |-> toFixed(tl, 10000000, 2)]

\* The '\n\n' that join puts between two blocks.
Separator == [kind |-> "sep"]

\* results.join('\n\n')
RECURSIVE Join(_)
Join(blocks) ==
    IF blocks = <<>> THEN <<>>
    ELSE IF Len(blocks) = 1 THEN blocks
    ELSE <<Head(blocks), Separator>> \o Join(Tail(blocks))

---------------------------------------------------------------------------
(* Initial state *)

\* Listings of at most n distinct names.
Listings(n) ==
    { s \in UNION { [1..k -> NamePool] : k \in 0..n } :
        \A i, j \in 1..Len(s) : i # j => s[i] # s[j] }

\* Where the program starts: nothing done yet.
ProgramStart ==
    /\ pc = "start"
    /\ exitCode = 0
    /\ files = <<>>
    /\ idx = 1
    /\ results = <<>>
    /\ totalCostUSD = 0
    /\ totalCostTL = 0
    /\ totalTime = 0
    /\ totalTokens = 0
    /\ attempted = <<>>
    /\ apiCalls = <<>>
    /\ inFlight = 0
    /\ outcomes = <<>>
    /\ delays = <<>>
    /\ errorLog = <<>>
    /\ reportFile = <<>>
    /\ writes = 0
    /\ writeCalls = 0
    /\ mkdirCalls = 0

Init ==
    /\ apiKey \in BOOLEAN
    /\ imageDir \in {"missing", "ok", "unreadable"}
    /\ resultsDirExists \in BOOLEAN
    /\ dirEntries \in Listings(MaxEntries)
    /\ (imageDir # "ok" => dirEntries = <<>>)
    /\ ProgramStart
    /\ costArgs = [inputTokens |-> 0, outputTokens |-> 0]
    /\ costResult = <<>>

\* calculateCost on its own: the arguments are any two token counts.
CostInit ==
    /\ apiKey = TRUE
    /\ imageDir = "ok"
    /\ resultsDirExists = TRUE
    /\ dirEntries = <<>>
    /\ ProgramStart
    /\ costArgs \in [inputTokens : 0..MaxTokens, outputTokens : 0..MaxTokens]
    /\ costResult = <<>>

---------------------------------------------------------------------------
(* Steps of the program *)

\* process.exit(1)
Exit1 == pc' = "exited" /\ exitCode' = 1

\* Variant: the missing credential is not checked.
ValidateEnvironment_NoCheck ==
    /\ pc = "start"
    /\ pc' = "main"
    /\ UNCHANGED <<costVars, mkdirCalls, writeCalls>>
    /\ UNCHANGED <<envVars, resultsDirExists, exitCode, files, idx, results,
                   totalVars, attempted, apiCalls, inFlight, outcomes, delays,
                   errorLog, reportFile, writes>>

\* Top level: the OPENAI_API_KEY check, then main() is started.
ValidateEnvironment ==
    /\ pc = "start"
    /\ IF ~apiKey THEN Exit1 ELSE pc' = "main" /\ UNCHANGED exitCode
    /\ UNCHANGED <<costVars, mkdirCalls, writeCalls>>
    /\ UNCHANGED <<envVars, resultsDirExists, files, idx, results, totalVars,
                   attempted, apiCalls, inFlight, outcomes, delays, errorLog,
                   reportFile, writes>>

\* Variant: the image directory is checked first, the results directory is
\* made only when the run goes on.
initializeDirectories_InputFirst ==
    /\ pc = "main"
    /\ IF imageDir = "missing"
       THEN Exit1 /\ UNCHANGED <<resultsDirExists, mkdirCalls>>
       ELSE /\ resultsDirExists' = TRUE
            /\ mkdirCalls' = IF resultsDirExists THEN mkdirCalls
                              ELSE mkdirCalls + 1
            /\ pc' = "enumerate" /\ UNCHANGED exitCode
    /\ UNCHANGED <<costVars, writeCalls>>
    /\ UNCHANGED <<envVars, files, idx, results, totalVars, attempted,
                   apiCalls, inFlight, outcomes, delays, errorLog,
                   reportFile, writes>>

\* initializeDirectories: mkdir results when absent, then the image
\* directory check.
initializeDirectories ==
    /\ pc = "main"
    /\ resultsDirExists' = TRUE
    /\ mkdirCalls' = IF resultsDirExists THEN mkdirCalls ELSE mkdirCalls + 1
    /\ IF imageDir = "missing" THEN Exit1
       ELSE pc' = "enumerate" /\ UNCHANGED exitCode
    /\ UNCHANGED <<costVars, writeCalls>>
    /\ UNCHANGED <<envVars, files, idx, results, totalVars, attempted,
                   apiCalls, inFlight, outcomes, delays, errorLog,
                   reportFile, writes>>

\* readdirSync / filter / sort and the empty-list check. A readdirSync that
\* throws lands in the outer catch, which exits with status 1.
EnumerateFiles ==
    /\ pc = "enumerate"
    /\ IF imageDir = "unreadable"
       THEN Exit1 /\ UNCHANGED files
       ELSE /\ files' = SortNames(FilterPng(dirEntries))
            /\ IF Len(files') = 0 THEN Exit1
               ELSE pc' = "loop" /\ UNCHANGED exitCode
    /\ UNCHANGED <<costVars, mkdirCalls, writeCalls>>
    /\ UNCHANGED <<envVars, resultsDirExists, idx, results, totalVars,
                   attempted, apiCalls, inFlight, outcomes, delays, errorLog,
                   reportFile, writes>>

\* The error lines of the per-item catch.
ErrorLine(file, message) == [file |-> file, message |-> message]

\* Variant: the per-item catch is empty, nothing is logged.
ReadFailed_Silent ==
    /\ pc = "loop"
    /\ idx <= Len(files)
    /\ attempted' = Append(attempted, files[idx])
    /\ outcomes' = Append(outcomes, [file |-> files[idx], ok |-> FALSE])
    /\ idx' = idx + 1
    /\ UNCHANGED <<costVars, mkdirCalls, writeCalls>>
    /\ UNCHANGED <<envVars, resultsDirExists, pc, exitCode, files, results,
                   totalVars, apiCalls, inFlight, delays, errorLog,
                   reportFile, writes>>

\* Loop body, encodeImage throws: processImage rejects before any request
\* is made, the per-item catch logs, the loop goes on to the next file.
ReadFailed ==
    /\ pc = "loop"
    /\ idx <= Len(files)
    /\ attempted' = Append(attempted, files[idx])
    /\ outcomes' = Append(outcomes, [file |-> files[idx], ok |-> FALSE])
    /\ errorLog' = Append(errorLog,
                          ErrorLine(files[idx], "Failed to read image file"))
    /\ idx' = idx + 1
    /\ UNCHANGED <<costVars, mkdirCalls, writeCalls>>
    /\ UNCHANGED <<envVars, resultsDirExists, pc, exitCode, files, results,
                   totalVars, apiCalls, inFlight, delays, reportFile, writes>>

\* Variant: the request is sent and the loop goes on without awaiting it.
IssueCall_NoAwait ==
    /\ pc = "loop"
    /\ idx <= Len(files)
    /\ attempted' = Append(attempted, files[idx])
    /\ apiCalls' = Append(apiCalls, files[idx])
    /\ inFlight' = inFlight + 1
    /\ idx' = idx + 1
    /\ UNCHANGED <<costVars, mkdirCalls, writeCalls>>
    /\ UNCHANGED <<envVars, resultsDirExists, pc, exitCode, files, results,
                   totalVars, outcomes, delays, errorLog, reportFile, writes>>

\* Loop body, the image was read: the request is sent and main awaits it.
IssueCall ==
    /\ pc = "loop"
    /\ idx <= Len(files)
    /\ attempted' = Append(attempted, files[idx])
    /\ apiCalls' = Append(apiCalls, files[idx])
    /\ inFlight' = inFlight + 1
    /\ pc' = "awaitApi"
    /\ UNCHANGED <<costVars, mkdirCalls, writeCalls>>
    /\ UNCHANGED <<envVars, resultsDirExists, exitCode, files, idx, results,
                   totalVars, outcomes, delays, errorLog, reportFile, writes>>

\* Variant: the totals are assigned instead of added to.
ApiSucceeded_Assigns ==
    /\ pc = "awaitApi"
    /\ \E response \in ApiResponses :
        LET result == ProcessResult(response) IN
        /\ totalCostUSD' = result.stats.cost.usd
        /\ totalCostTL' = result.stats.cost.tl
        /\ totalTime' = result.stats.responseTime
        /\ totalTokens' = result.stats.totalTokens
        /\ results' = Append(results, FileEntry(files[idx], result))
        /\ outcomes' = Append(outcomes, [file |-> files[idx], ok |-> TRUE,
                                         text |-> result.text,
                                         stats |-> result.stats])
    /\ inFlight' = inFlight - 1
    /\ delays' = Append(delays, DELAY_BETWEEN_REQUESTS)
    /\ pc' = "awaitDelay"
    /\ UNCHANGED <<costVars, mkdirCalls, writeCalls>>
    /\ UNCHANGED <<envVars, resultsDirExists, exitCode, files, idx, attempted,
                   apiCalls, errorLog, reportFile, writes>>

\* Variant: the block is put at the front of results (unshift).
ApiSucceeded_Unshifts ==
    /\ pc = "awaitApi"
    /\ \E response \in ApiResponses :
        LET result == ProcessResult(response) IN
        /\ totalCostUSD' = totalCostUSD + result.stats.cost.usd
        /\ totalCostTL' = totalCostTL + result.stats.cost.tl
        /\ totalTime' = totalTime + result.stats.responseTime
        /\ totalTokens' = totalTokens + result.stats.totalTokens
        /\ results' = <<FileEntry(files[idx], result)>> \o results
        /\ outcomes' = Append(outcomes, [file |-> files[idx], ok |-> TRUE,
                                         text |-> result.text,
                                         stats |-> result.stats])
    /\ inFlight' = inFlight - 1
    /\ delays' = Append(delays, DELAY_BETWEEN_REQUESTS)
    /\ pc' = "awaitDelay"
    /\ UNCHANGED <<costVars, mkdirCalls, writeCalls>>
    /\ UNCHANGED <<envVars, resultsDirExists, exitCode, files, idx, attempted,
                   apiCalls, errorLog, reportFile, writes>>

\* Variant: the report is saved after every processed file.
ApiSucceeded_SavesEachTime ==
    /\ pc = "awaitApi"
    /\ \E response \in ApiResponses :
        LET result == ProcessResult(response) IN
        /\ totalCostUSD' = totalCostUSD + result.stats.cost.usd
        /\ totalCostTL' = totalCostTL + result.stats.cost.tl
        /\ totalTime' = totalTime + result.stats.responseTime
        /\ totalTokens' = totalTokens + result.stats.totalTokens
        /\ results' = Append(results, FileEntry(files[idx], result))
        /\ outcomes' = Append(outcomes, [file |-> files[idx], ok |-> TRUE,
                                         text |-> result.text,
                                         stats |-> result.stats])
    /\ reportFile' = Join(results')
    /\ inFlight' = inFlight - 1
    /\ delays' = Append(delays, DELAY_BETWEEN_REQUESTS)
    /\ pc' = "awaitDelay"
    /\ UNCHANGED <<costVars, mkdirCalls, writeCalls>>
    /\ UNCHANGED <<envVars, resultsDirExists, exitCode, files, idx, attempted,
                   apiCalls, errorLog, writes>>

\* Variant: the block lands in results at the position the completion order
\* of concurrent requests gives it.
ApiSucceeded_CompletionOrder ==
    /\ pc = "awaitApi"
    /\ \E response \in ApiResponses, k \in 0..Len(results) :
        LET result == ProcessResult(response) IN
        /\ totalCostUSD' = totalCostUSD + result.stats.cost.usd
        /\ totalCostTL' = totalCostTL + result.stats.cost.tl
        /\ totalTime' = totalTime + result.stats.responseTime
        /\ totalTokens' = totalTokens + result.stats.totalTokens
        /\ results' = SubSeq(results, 1, k)
                       \o <<FileEntry(files[idx], result)>>
                       \o SubSeq(results, k + 1, Len(results))
        /\ outcomes' = Append(outcomes, [file |-> files[idx], ok |-> TRUE,
                                         text |-> result.text,
                                         stats |-> result.stats])
    /\ inFlight' = inFlight - 1
    /\ delays' = Append(delays, DELAY_BETWEEN_REQUESTS)
    /\ pc' = "awaitDelay"
    /\ UNCHANGED <<costVars, mkdirCalls, writeCalls>>
    /\ UNCHANGED <<envVars, resultsDirExists, exitCode, files, idx, attempted,
                   apiCalls, errorLog, reportFile, writes>>

\* The request resolves: totals are added up, the block is pushed, and the
\* rate-limiting timer is started.
ApiSucceeded ==
    /\ pc = "awaitApi"
    /\ \E response \in ApiResponses :
        LET result == ProcessResult(response) IN
        /\ totalCostUSD' = totalCostUSD + result.stats.cost.usd
        /\ totalCostTL' = totalCostTL + result.stats.cost.tl
        /\ totalTime' = totalTime + result.stats.responseTime
        /\ totalTokens' = totalTokens + result.stats.totalTokens
        /\ results' = Append(results, FileEntry(files[idx], result))
        /\ outcomes' = Append(outcomes, [file |-> files[idx], ok |-> TRUE,
                                         text |-> result.text,
                                         stats |-> result.stats])
    /\ inFlight' = inFlight - 1
    /\ delays' = Append(delays, DELAY_BETWEEN_REQUESTS)
    /\ pc' = "awaitDelay"
    /\ UNCHANGED <<costVars, mkdirCalls, writeCalls>>
    /\ UNCHANGED <<envVars, resultsDirExists, exitCode, files, idx, attempted,
                   apiCalls, errorLog, reportFile, writes>>

\* Variant: the per-item catch leaves the loop (break).
ApiFailed_Breaks ==
    /\ pc = "awaitApi"
    /\ inFlight' = inFlight - 1
    /\ outcomes' = Append(outcomes, [file |-> files[idx], ok |-> FALSE])
    /\ errorLog' = Append(errorLog,
                          ErrorLine(files[idx], "API request failed"))
    /\ idx' = Len(files) + 1
    /\ pc' = "loop"
    /\ UNCHANGED <<costVars, mkdirCalls, writeCalls>>
    /\ UNCHANGED <<envVars, resultsDirExists, exitCode, files, results,
                   totalVars, attempted, apiCalls, delays, reportFile, writes>>

\* Variant: the per-item catch records a block for the failed file.
ApiFailed_PushesEntry ==
    /\ pc = "awaitApi"
    /\ inFlight' = inFlight - 1
    /\ outcomes' = Append(outcomes, [file |-> files[idx], ok |-> FALSE])
    /\ errorLog' = Append(errorLog,
                          ErrorLine(files[idx], "API request failed"))
    /\ results' = Append(results,
                         FileEntry(files[idx],
                                   ProcessResult([content |-> <<>>,
                                                  prompt_tokens |-> 0,
                                                  completion_tokens |-> 0,
                                                  total_tokens |-> 0,
                                                  elapsed |-> 0])))
    /\ idx' = idx + 1
    /\ pc' = "loop"
    /\ UNCHANGED <<costVars, mkdirCalls, writeCalls>>
    /\ UNCHANGED <<envVars, resultsDirExists, exitCode, files, totalVars,
                   attempted, apiCalls, delays, reportFile, writes>>

\* Variant: the per-item catch ends the process, as the outer catch does.
ApiFailed_Exits ==
    /\ pc = "awaitApi"
    /\ inFlight' = inFlight - 1
    /\ outcomes' = Append(outcomes, [file |-> files[idx], ok |-> FALSE])
    /\ errorLog' = Append(errorLog,
                          ErrorLine(files[idx], "API request failed"))
    /\ Exit1
    /\ UNCHANGED <<costVars, mkdirCalls, writeCalls>>
    /\ UNCHANGED <<envVars, resultsDirExists, files, idx, results, totalVars,
                   attempted, apiCalls, delays, reportFile, writes>>

\* Variant: a rejected request is sent again.
ApiFailed_Retries ==
    /\ pc = "awaitApi"
    /\ apiCalls' = Append(apiCalls, files[idx])
    /\ UNCHANGED <<costVars, mkdirCalls, writeCalls>>
    /\ UNCHANGED <<envVars, resultsDirExists, pc, exitCode, files, idx,
                   results, totalVars, attempted, inFlight, outcomes, delays,
                   errorLog, reportFile, writes>>

\* Variant: the rate-limiting timer is also started after a failed item.
ApiFailed_Delays ==
    /\ pc = "awaitApi"
    /\ inFlight' = inFlight - 1
    /\ outcomes' = Append(outcomes, [file |-> files[idx], ok |-> FALSE])
    /\ errorLog' = Append(errorLog,
                          ErrorLine(files[idx], "API request failed"))
    /\ delays' = Append(delays, DELAY_BETWEEN_REQUESTS)
    /\ pc' = "awaitDelay"
    /\ UNCHANGED <<costVars, mkdirCalls, writeCalls>>
    /\ UNCHANGED <<envVars, resultsDirExists, exitCode, files, idx, results,
                   totalVars, attempted, apiCalls, reportFile, writes>>

\* The request rejects (or its response cannot be read): the per-item catch
\* logs and the loop goes on to the next file.
ApiFailed ==
    /\ pc = "awaitApi"
    /\ inFlight' = inFlight - 1
    /\ outcomes' = Append(outcomes, [file |-> files[idx], ok |-> FALSE])
    /\ errorLog' = Append(errorLog,
                          ErrorLine(files[idx], "API request failed"))
    /\ idx' = idx + 1
    /\ pc' = "loop"
    /\ UNCHANGED <<costVars, mkdirCalls, writeCalls>>
    /\ UNCHANGED <<envVars, resultsDirExists, exitCode, files, results,
                   totalVars, attempted, apiCalls, delays, reportFile, writes>>

\* Variant: after the timer the loop takes the same file again.
DelayElapsed_SameFile ==
    /\ pc = "awaitDelay"
    /\ pc' = "loop"
    /\ UNCHANGED <<costVars, mkdirCalls, writeCalls>>
    /\ UNCHANGED <<envVars, resultsDirExists, exitCode, files, idx, results,
                   totalVars, attempted, apiCalls, inFlight, outcomes, delays,
                   errorLog, reportFile, writes>>

\* The timer fires: next iteration.
DelayElapsed ==
    /\ pc = "awaitDelay"
    /\ idx' = idx + 1
    /\ pc' = "loop"
    /\ UNCHANGED <<costVars, mkdirCalls, writeCalls>>
    /\ UNCHANGED <<envVars, resultsDirExists, exitCode, files, results,
                   totalVars, attempted, apiCalls, inFlight, outcomes, delays,
                   errorLog, reportFile, writes>>

\* Variant: the average is taken over the processed files; with none
\* processed the quotient is NaN, written here as -1.
AddTotalStatistics_DividesByProcessed ==
    /\ pc = "loop"
    /\ idx > Len(files)
    /\ LET processed == Len(SelectSeq(results, LAMBDA b : b.kind = "file"))
           block == TotalEntry(totalTime, totalTokens, totalCostUSD,
                               totalCostTL, Len(files))
       IN  results' = Append(results,
                [block EXCEPT !.averageTokens =
                    IF processed = 0 THEN -1
                    ELSE toFixed(totalTokens, processed, 0)])
    /\ pc' = "save"
    /\ UNCHANGED <<costVars, mkdirCalls, writeCalls>>
    /\ UNCHANGED <<envVars, resultsDirExists, exitCode, files, idx, totalVars,
                   attempted, apiCalls, inFlight, outcomes, delays, errorLog,
                   reportFile, writes>>

\* After the loop: the total statistics block is pushed.
AddTotalStatistics ==
    /\ pc = "loop"
    /\ idx > Len(files)
    /\ results' = Append(results,
                         TotalEntry(totalTime, totalTokens, totalCostUSD,
                                    totalCostTL, Len(files)))
    /\ pc' = "save"
    /\ UNCHANGED <<costVars, mkdirCalls, writeCalls>>
    /\ UNCHANGED <<envVars, resultsDirExists, exitCode, files, idx, totalVars,
                   attempted, apiCalls, inFlight, outcomes, delays, errorLog,
                   reportFile, writes>>

\* writeFileSync succeeds; main returns and the process ends normally.
SaveResults ==
    /\ pc = "save"
    /\ writeCalls' = writeCalls + 1
    /\ reportFile' = Join(results)
    /\ writes' = writes + 1
    /\ pc' = "done"
    /\ UNCHANGED <<costVars, mkdirCalls>>
    /\ UNCHANGED <<envVars, resultsDirExists, exitCode, files, idx, results,
                   totalVars, attempted, apiCalls, inFlight, outcomes, delays,
                   errorLog>>

\* Variant: the outer catch logs the write error and the run goes on to
\* report completion.
SaveFailed_ReportsCompletion ==
    /\ pc = "save"
    /\ writeCalls' = writeCalls + 1
    /\ pc' = "done"
    /\ UNCHANGED <<costVars, mkdirCalls>>
    /\ UNCHANGED <<envVars, resultsDirExists, exitCode, files, idx, results,
                   totalVars, attempted, apiCalls, inFlight, outcomes, delays,
                   errorLog, reportFile, writes>>

\* writeFileSync throws: the outer catch exits with status 1.
SaveFailed ==
    /\ pc = "save"
    /\ writeCalls' = writeCalls + 1
    /\ Exit1
    /\ UNCHANGED <<costVars, mkdirCalls>>
    /\ UNCHANGED <<envVars, resultsDirExists, files, idx, results, totalVars,
                   attempted, apiCalls, inFlight, outcomes, delays, errorLog,
                   reportFile, writes>>

Next ==
    \/ ValidateEnvironment
    \/ initializeDirectories
    \/ EnumerateFiles
    \/ ReadFailed
    \/ IssueCall
    \/ ApiSucceeded
    \/ ApiFailed
    \/ DelayElapsed
    \/ AddTotalStatistics
    \/ SaveResults
    \/ SaveFailed

Spec == Init /\ [][Next]_vars

\* One call of calculateCost.
CallCalculateCost ==
    /\ costResult = <<>>
    /\ costResult' = <<calculateCost(costArgs.inputTokens,
                                      costArgs.outputTokens)>>
    /\ UNCHANGED <<costArgs, mkdirCalls, writeCalls, envVars, resultsDirExists,
                   pc, exitCode, files, idx, results, totalVars, attempted,
                   apiCalls, inFlight, outcomes, delays, errorLog, reportFile,
                   writes>>

CostNext == CallCalculateCost

CostSpec == CostInit /\ [][CostNext]_vars

\* The event loop runs whatever is ready: a settled request, an elapsed
\* timer, or the next synchronous stretch of the program.
FairSpec == Spec /\ WF_vars(Next)

TypeOK ==
    /\ pc \in {"start", "main", "enumerate", "loop", "awaitApi", "awaitDelay",
               "save", "done", "exited"}
    /\ exitCode \in {0, 1}
    /\ idx \in 1..(Len(files) + 1)
    /\ inFlight \in 0..1
    /\ writes \in 0..1

---------------------------------------------------------------------------
(* Vocabulary of the properties *)

LoopEnded ==
    \/ pc \in {"save", "done"}
    \/ pc = "loop" /\ idx > Len(files)
    \/ pc = "exited" /\ files # <<>>

InLoop ==
    \/ pc \in {"awaitApi", "awaitDelay"}
    \/ pc = "loop" /\ idx <= Len(files)

Prefix(s, n) == SubSeq(s, 1, n)

OkOutcomes == SelectSeq(outcomes, LAMBDA o : o.ok)
FailedOutcomes == SelectSeq(outcomes, LAMBDA o : ~o.ok)
FileBlocks(blocks) == SelectSeq(blocks, LAMBDA b : b.kind = "file")
BlocksOf(content) == SelectSeq(content, LAMBDA b : b.kind # "sep")
NamesOf(s) == [i \in 1..Len(s) |-> s[i].file]

\* What one settled item adds to the totals.
Contribution(o) ==
    IF o.ok
    THEN [tokens |-> o.stats.totalTokens, time |-> o.stats.responseTime,
          usd |-> o.stats.cost.usd, tl |-> o.stats.cost.tl]
    ELSE [tokens |-> 0, time |-> 0, usd |-> 0, tl |-> 0]

RECURSIVE SumOf(_, _)
SumOf(s, field) ==
    IF s = <<>> THEN 0 ELSE Contribution(Head(s))[field] + SumOf(Tail(s), field)

\* a comes strictly before b in code-unit lexicographic order.
NameBefore(a, b) ==
    \E k \in 1..(Len(a) + 1) :
        /\ \A j \in 1..(k - 1) : j <= Len(b) /\ a[j] = b[j]
        /\ k <= Len(b)
        /\ (k <= Len(a) => a[k] < b[k])

\* The name ends in .png, in any mix of upper and lower case.
HasPngExtension(name) ==
    /\ Len(name) >= 4
    /\ name[Len(name) - 3] = 46
    /\ name[Len(name) - 2] \in {112, 80}
    /\ name[Len(name) - 1] \in {110, 78}
    /\ name[Len(name)] \in {103, 71}

EligibleNames == { dirEntries[i] : i \in { j \in 1..Len(dirEntries) :
                                             HasPngExtension(dirEntries[j]) } }

ZeroTotalBlock ==
    [kind |-> "total", totalTime |-> 0, totalTokens |-> 0,
     averageTokens |-> 0, usd |-> 0, tl |-> 0]

---------------------------------------------------------------------------
(* Properties *)

\* C1: partial-failure isolation. The files handed to processImage are
\* always a prefix of the sorted list, one more per iteration, and whenever
\* the loop is over (also when the process exits afterwards) every eligible
\* file has been attempted exactly once, in list order, whatever failed.
C1_PartialFailureIsolation ==
    /\ (pc = "loop" /\ files # <<>> => attempted = Prefix(files, idx - 1))
    /\ (pc \in {"awaitApi", "awaitDelay"} => attempted = Prefix(files, idx))
    /\ (LoopEnded => attempted = files)
    /\ Len(outcomes) <= Len(attempted)
    /\ \A i, j \in 1..Len(attempted) : i # j => attempted[i] # attempted[j]
    /\ (errorLog # <<>> /\ pc = "exited" => results # <<>>
                                            /\ results[Len(results)].kind = "total")

\* A run over three files where the second failed and the third was still
\* attempted and succeeded.
C1_Witness ==
    /\ pc = "done"
    /\ Len(files) = 3
    /\ attempted = files
    /\ outcomes[1].ok /\ ~outcomes[2].ok /\ outcomes[3].ok

\* C2: after each item, succeeded or failed, the delay is taken: the
\* number of setTimeout calls with argument DELAY_BETWEEN_REQUESTS equals the
\* number of settled items, and the number of eligible files at loop end.
C2_DelayAfterEveryItem ==
    /\ Len(delays) = Len(outcomes)
    /\ \A i \in 1..Len(delays) : delays[i] = DELAY_BETWEEN_REQUESTS
    /\ (LoopEnded => Len(delays) = Len(files))

\* C3: each total is the sum over the items that succeeded so far; a
\* failed item adds nothing.
C3_AggregateInvariant ==
    /\ totalTokens = SumOf(outcomes, "tokens")
    /\ totalTime = SumOf(outcomes, "time")
    /\ totalCostUSD = SumOf(outcomes, "usd")
    /\ totalCostTL = SumOf(outcomes, "tl")

\* Two successes with tokens and one failure have been folded.
C3_Witness ==
    /\ pc = "done"
    /\ Len(OkOutcomes) = 2
    /\ Len(FailedOutcomes) = 1
    /\ totalTokens = 353

\* C4: the number of per-file blocks never exceeds the number of eligible
\* files, and once the loop is over the two are equal exactly when no item
\* failed.
C4_ProcessedCountBound ==
    /\ Len(FileBlocks(results)) <= Len(files)
    /\ Len(FileBlocks(results)) = Len(OkOutcomes)
    /\ (LoopEnded =>
          (Len(FileBlocks(results)) = Len(files) <=> FailedOutcomes = <<>>))

\* The loop is over with a failed item, so strictly fewer blocks than files.
C4_Witness ==
    /\ pc = "save"
    /\ Len(files) = 3
    /\ Len(FileBlocks(results)) = 2
    /\ Len(FailedOutcomes) = 1

\* C5: the report written at the end holds one block per succeeded file and
\* none for a failed one, in ascending order of file name (the processing
\* order), followed by exactly one total block, the last one.
C5_ReportOrdering ==
    pc = "done" =>
        LET blocks == BlocksOf(reportFile)
            n == Len(blocks)
        IN  /\ n = Len(OkOutcomes) + 1
            /\ blocks[n].kind = "total"
            /\ \A i \in 1..(n - 1) :
                 /\ blocks[i].kind = "file"
                 /\ blocks[i].file = OkOutcomes[i].file
                 /\ blocks[i].totalTokens = OkOutcomes[i].stats.totalTokens
            /\ \A i, j \in 1..(n - 1) :
                 i < j => NameBefore(blocks[i].file, blocks[j].file)
            /\ \A i \in 1..(n - 1), j \in 1..Len(FailedOutcomes) :
                 blocks[i].file # FailedOutcomes[j].file
            /\ Len(reportFile) = 2 * n - 1

\* A report with two file blocks and the total block, one file having failed.
C5_Witness ==
    /\ pc = "done"
    /\ Len(BlocksOf(reportFile)) = 3
    /\ Len(FailedOutcomes) = 1
    /\ ~outcomes[1].ok

\* C6: when every item of a non-empty list failed, there is no per-file
\* block, all totals are 0, the total block carries an average of 0, the run
\* still reaches the save, and what a successful save writes is that total
\* block alone.
C6_AllFailureRun ==
    (LoopEnded /\ files # <<>> /\ OkOutcomes = <<>>) =>
        /\ FileBlocks(results) = <<>>
        /\ totalTokens = 0 /\ totalTime = 0
        /\ totalCostUSD = 0 /\ totalCostTL = 0
        /\ (pc \in {"save", "done", "exited"} => results = <<ZeroTotalBlock>>)
        /\ (pc = "done" => reportFile = <<ZeroTotalBlock>> /\ writes = 1)
        /\ (pc # "done" => pc = "exited" \/ ENABLED Next)

\* Every one of two files failed and the report was written.
C6_Witness ==
    /\ pc = "done"
    /\ Len(files) = 2
    /\ Len(FailedOutcomes) = 2
    /\ writes = 1

FailFastCase ==
    \/ ~apiKey
    \/ imageDir = "missing"
    \/ imageDir = "ok" /\ EligibleNames = {}

\* C7: without a credential, without the image directory, or without an
\* eligible file, the run never reaches the loop: no processImage call, no
\* request, no report; it goes on until the process has exited, with
\* status 1.
C7_FailFast ==
    FailFastCase =>
        /\ pc \in {"start", "main", "enumerate", "exited"}
        /\ attempted = <<>> /\ apiCalls = <<>> /\ inFlight = 0
        /\ writes = 0 /\ reportFile = <<>>
        /\ (pc = "exited" => exitCode = 1)
        /\ (pc # "exited" => ENABLED Next)

\* The directory holds entries, none of them eligible, and the process has
\* exited.
C7_Witness ==
    /\ pc = "exited"
    /\ exitCode = 1
    /\ apiKey
    /\ imageDir = "ok"
    /\ Len(dirEntries) = 3
    /\ EligibleNames = {}

\* C8: once enumerated, files holds exactly the entries with a .png
\* extension in any case, each once, in ascending code-unit order; and these
\* are the files processed.
C8_FileFiltering ==
    (pc \in {"loop", "awaitApi", "awaitDelay", "save", "done"}) =>
        /\ { files[i] : i \in 1..Len(files) } = EligibleNames
        /\ Len(files) = Cardinality(EligibleNames)
        /\ \A i, j \in 1..Len(files) : i < j => NameBefore(files[i], files[j])
        /\ (pc \in {"save", "done"} => attempted = files)

\* a.png after b.PNG in the listing, next to c.txt: two files, sorted.
C8_Witness ==
    /\ pc = "done"
    /\ dirEntries = << <<98, 46, 80, 78, 71>>, <<99, 46, 116, 120, 116>>,
                       <<97, 46, 112, 110, 103>> >>
    /\ files = << <<97, 46, 112, 110, 103>>, <<98, 46, 80, 78, 71>> >>
    /\ attempted = files

\* C9: at most one request is in flight at any time, and a request is
\* issued only when none is in flight.
C9_StrictSequencing ==
    /\ [](inFlight \in 0..1 /\ (inFlight = 1 <=> pc = "awaitApi"))
    /\ [][apiCalls' # apiCalls => inFlight = 0 /\ inFlight' = 1]_vars

\* The second request is in flight, the first having settled.
C9_Witness ==
    /\ Len(apiCalls) = 2
    /\ inFlight = 1
    /\ Len(outcomes) = 1

\* C10: the report is written at most once, only when every eligible file
\* has been attempted and the total block is the last of results; nothing is
\* on disk before.
C10_SingleFlush ==
    /\ writes \in 0..1
    /\ (pc # "done" => writes = 0 /\ reportFile = <<>>)
    /\ (writes = 1 =>
          /\ attempted = files
          /\ Len(outcomes) = Len(files)
          /\ results[Len(results)].kind = "total"
          /\ reportFile = Join(results))

\* The one write, after a loop over three files.
C10_Witness ==
    /\ writes = 1
    /\ Len(files) = 3
    /\ Len(results) = 3

\* C11: calculateCost returns usd = inputTokens * inputRate + outputTokens *
\* outputRate (rates per token, in units of 1e-5 dollar) with inputRate <
\* outputRate, and tl = usd * USD_TO_TL, for all token counts up to MaxTokens.
C11_CostModel ==
    costResult # <<>> =>
        LET r == costResult[1] IN
        /\ r.usd = costArgs.inputTokens * INPUT_PRICE_PER_1K
                    + costArgs.outputTokens * OUTPUT_PRICE_PER_1K
        /\ INPUT_PRICE_PER_1K < OUTPUT_PRICE_PER_1K
        /\ r.tl = r.usd * USD_TO_TL
        /\ r.usd >= 0 /\ r.tl >= 0
        /\ (costArgs.inputTokens = costArgs.outputTokens
              /\ costArgs.inputTokens > 0
              => 2 * costArgs.inputTokens * INPUT_PRICE_PER_1K < r.usd)

\* A call with 7 input and 5 output tokens has returned 22 units of 1e-5
\* dollar and 76978 units of 1e-7 lira.
C11_Witness ==
    /\ costArgs = [inputTokens |-> 7, outputTokens |-> 5]
    /\ costResult = <<[usd |-> 22, tl |-> 76978]>>

\* C12: every failed item has its line in the error log, with the file name
\* and one of the two error messages, in order; once the loop is over the
\* logged errors and the per-file blocks together account for every
\* eligible file.
C12_NoSilentDrop ==
    /\ Len(errorLog) = Len(FailedOutcomes)
    /\ \A i \in 1..Len(errorLog) :
         /\ errorLog[i].file = FailedOutcomes[i].file
         /\ errorLog[i].message \in {"Failed to read image file",
                                     "API request failed"}
    /\ (LoopEnded =>
          Len(errorLog) + Len(FileBlocks(results)) = Len(files))

\* Three files: one unreadable, one rejected by the API, one processed.
C12_Witness ==
    /\ pc = "done"
    /\ Len(files) = 3
    /\ Len(errorLog) = 2
    /\ errorLog[1].message # errorLog[2].message
    /\ Len(FileBlocks(results)) = 1

\* C13: writeFileSync is called at most once; when that call fails the
\* process has exited with status 1, nothing is on disk, and completion is
\* never reported without a completed write.
C13_WriteFailure ==
    /\ writeCalls \in 0..1
    /\ writes <= writeCalls
    /\ (writes < writeCalls =>
          pc = "exited" /\ exitCode = 1 /\ reportFile = <<>>)
    /\ (pc = "done" => writes = 1 /\ writeCalls = 1)

\* The write after a loop over two files failed and the process exited.
C13_Witness ==
    /\ pc = "exited"
    /\ exitCode = 1
    /\ writeCalls = 1
    /\ writes = 0
    /\ Len(results) = 3

\* C14: no step lowers any of the four totals, and no step changes any of
\* them once the loop is over.
C14_MonotoneAggregate ==
    [][/\ totalTokens' >= totalTokens
       /\ totalTime' >= totalTime
       /\ totalCostUSD' >= totalCostUSD
       /\ totalCostTL' >= totalCostTL
       /\ (LoopEnded => UNCHANGED totalVars)]_vars

\* Three successes of different sizes were folded, the largest first.
C14_Witness ==
    /\ pc = "done"
    /\ Len(OkOutcomes) = 3
    /\ OkOutcomes[1].stats.totalTokens = 265
    /\ OkOutcomes[2].stats.totalTokens = 88
    /\ totalTokens = 353 + OkOutcomes[3].stats.totalTokens

\* The blocks that the list of per-file recognizer results determines.
RECURSIVE BlocksFor(_)
BlocksFor(s) ==
    IF s = <<>> THEN <<>>
    ELSE IF Head(s).ok
    THEN <<FileEntry(Head(s).file,
                     [text |-> Head(s).text, stats |-> Head(s).stats])>>
         \o BlocksFor(Tail(s))
    ELSE BlocksFor(Tail(s))

\* C15: the report body is a function of the ordered file list and of what
\* the recognizer returned for each file (response time included): it is
\* the blocks of the succeeded files in list order, then the total block
\* over their sums. Two runs with the same list and the same recognizer
\* results therefore write the same body, whatever the listing order of the
\* directory was.
C15_Determinism ==
    pc = "done" =>
        /\ NamesOf(outcomes) = files
        /\ reportFile =
             Join(BlocksFor(outcomes)
                  \o <<TotalEntry(SumOf(outcomes, "time"),
                                  SumOf(outcomes, "tokens"),
                                  SumOf(outcomes, "usd"),
                                  SumOf(outcomes, "tl"),
                                  Len(files))>>)

\* Two different successes, then a failure, and the report written.
C15_Witness ==
    /\ pc = "done"
    /\ Len(files) = 3
    /\ outcomes[1].ok /\ outcomes[2].ok /\ ~outcomes[3].ok
    /\ outcomes[1].text # outcomes[2].text
    /\ Len(reportFile) = 5

\* C16: the average in the total block is the sum of the tokens of the
\* succeeded items divided by the number of eligible files, which is at
\* least 1, rounded to the nearest integer as toFixed(0) prints it.
C16_AverageDenominator ==
    (results # <<>> /\ results[Len(results)].kind = "total") =>
        LET average == results[Len(results)].averageTokens
            tokens == SumOf(OkOutcomes, "tokens")
            n == Len(files)
        IN  /\ n >= 1
            /\ 2 * n * average <= 2 * tokens + n
            /\ 2 * tokens + n < 2 * n * (average + 1)

\* 353 tokens over two successes among three files: 118, not 177.
C16_Witness ==
    /\ pc = "save"
    /\ Len(files) = 3
    /\ Len(OkOutcomes) = 2
    /\ totalTokens = 353
    /\ results[Len(results)].averageTokens = 118

\* C17: no file gets a second request; once the loop is over every file
\* was attempted, a file whose image could not be read got no request, has
\* its error logged and no block, and every other file got exactly one
\* request.
C17_OneCallNoRetry ==
    /\ \A i, j \in 1..Len(apiCalls) : i # j => apiCalls[i] # apiCalls[j]
    /\ \A i \in 1..Len(apiCalls) :
         \E j \in 1..Len(attempted) : attempted[j] = apiCalls[i]
    /\ (LoopEnded =>
          /\ attempted = files
          /\ \A k \in 1..Len(files) :
               LET calls == Cardinality({ i \in 1..Len(apiCalls) :
                                            apiCalls[i] = files[k] })
                   readFailed ==
                       \E i \in 1..Len(errorLog) :
                           errorLog[i] = ErrorLine(files[k],
                                                   "Failed to read image file")
               IN  /\ calls = IF readFailed THEN 0 ELSE 1
                   /\ (readFailed =>
                         /\ ~outcomes[k].ok
                         /\ \A i \in 1..Len(results) :
                              results[i].kind = "file"
                              => results[i].file # files[k]))

\* The first of three files could not be read; the two others got their
\* request.
C17_Witness ==
    /\ pc = "done"
    /\ Len(files) = 3
    /\ errorLog # <<>>
    /\ errorLog[1] = ErrorLine(files[1], "Failed to read image file")
    /\ apiCalls = <<files[2], files[3]>>

\* Enumerate (0..2), Loop (3), Finalize (4), finished (5).
PhaseRank(p) ==
    CASE p = "start" -> 0
      [] p = "main" -> 1
      [] p = "enumerate" -> 2
      [] p \in {"loop", "awaitApi", "awaitDelay"} -> 3
      [] p = "save" -> 4
      [] p \in {"done", "exited"} -> 5

\* C18: with requests that settle and timers that fire, every run finishes;
\* it finishes either exited with status 1 and nothing written, or done
\* with the report written once; no step goes back to an earlier phase or
\* an earlier file, no file is taken twice, and nothing happens after the
\* end.
C18_Termination ==
    /\ <>(pc \in {"done", "exited"})
    /\ [](pc = "exited" => exitCode = 1 /\ writes = 0 /\ reportFile = <<>>)
    /\ [](pc = "done" => exitCode = 0 /\ writes = 1 /\ writeCalls = 1)
    /\ [][/\ PhaseRank(pc') >= PhaseRank(pc)
          /\ idx' >= idx
          /\ (attempted' # attempted =>
                /\ attempted' = Append(attempted, files[idx])
                /\ \A i \in 1..Len(attempted) : attempted[i] # files[idx])
          /\ pc \notin {"done", "exited"}]_vars

\* A run over one file that ended with the report written.
C18_Witness ==
    /\ pc = "done"
    /\ Len(files) = 1
    /\ idx = 2
    /\ writes = 1
    /\ exitCode = 0

\* C19: the timer is started once per succeeded item and never for a failed
\* one: the step that logs a per-item error starts no timer and leaves the
\* program at the top of the loop, ready for the next file.
C19_DelayOnlyAfterSuccess ==
    /\ [](/\ Len(delays) = Len(OkOutcomes)
          /\ \A i \in 1..Len(delays) : delays[i] = DELAY_BETWEEN_REQUESTS)
    /\ [][Len(errorLog') > Len(errorLog) =>
            delays' = delays /\ pc' = "loop"]_vars

\* The first request failed and the second is in flight, no timer started.
C19_Witness ==
    /\ Len(apiCalls) = 2
    /\ inFlight = 1
    /\ Len(FailedOutcomes) = 1
    /\ errorLog[1].message = "API request failed"
    /\ delays = <<>>

\* C20: without the credential nothing on disk is touched; with it, a run
\* that exits because the image directory is missing has first made sure the
\* results directory exists, creating it when it was absent; neither run
\* writes a report.
C20_ResultsDirBeforeInputCheck ==
    /\ [](~apiKey =>
            /\ pc \in {"start", "exited"}
            /\ mkdirCalls = 0 /\ writeCalls = 0 /\ reportFile = <<>>)
    /\ [][~apiKey => resultsDirExists' = resultsDirExists]_vars
    /\ [](apiKey /\ imageDir = "missing" /\ pc = "exited" =>
            /\ resultsDirExists
            /\ exitCode = 1
            /\ writeCalls = 0 /\ reportFile = <<>>)
    /\ [][pc = "main" =>
            /\ resultsDirExists'
            /\ mkdirCalls' = mkdirCalls + (IF resultsDirExists THEN 0 ELSE 1)]_vars

\* The image directory is missing, the results directory was absent and has
\* been created, and the process has exited.
C20_Witness ==
    /\ pc = "exited"
    /\ apiKey
    /\ imageDir = "missing"
    /\ mkdirCalls = 1
    /\ resultsDirExists
    /\ writeCalls = 0

===========================================================================
